---- MODULE Spec2Model ----
(***************************************************************************)
(* MyDefiProject: a contract that supplies to, redeems from, borrows from  *)
(* and repays a lending market (cToken contracts governed by a             *)
(* comptroller), and computes the maximum borrow from the comptroller's    *)
(* account liquidity and the price oracle.                                 *)
(*                                                                         *)
(* The contract itself is the one account (address(this)).  Every external *)
(* function is one transaction: it runs to completion, and a failed        *)
(* require reverts every state change made in it, the market's included.   *)
(* The cTokens, the comptroller and the oracle are external contracts:     *)
(* their result codes are inputs, their effects follow the market contract *)
(* of the specification (sections 4.2 and 4.3).  The contract has no       *)
(* exitMarket function, so an asset once entered stays entered.            *)
(*                                                                         *)
(* The API client (account, cToken, marketHistory, governance) is separate *)
(* from the contract: each function returns the promise queryApi builds    *)
(* around one HTTP request.  Its state is the variable api, which the      *)
(* contract's transactions leave alone.                                    *)
(***************************************************************************)
EXTENDS Integers, Sequences, FiniteSets

\* ---------------------------------------------------------------- bounds
MaxShares == 2      \* receipt shares held per market, and request amounts
MaxDebt == 2        \* borrow balance per market

\* ---------------------------------------------------------- configuration
Assets == {"A", "B"}
AssetSeq == <<"A", "B">>

\* collateral factor of an asset, CfNum[a] / CfDen, in [0, 1)
CfDen == 4
CfNum == [a \in Assets |-> IF a = "A" THEN 3 ELSE 2]

\* underlying units per receipt share
ExchangeRate == [a \in Assets |-> IF a = "A" THEN 1 ELSE 2]

Amounts == 0 .. MaxShares
\* unit prices the oracle reports (non-negative); B may be reported as 0
Prices == [a \in Assets |-> IF a = "A" THEN {1, 2} ELSE {0, 1, 2}]
ResultCodes == {0, 1}       \* 0 is success, anything else an error code

\* the API client's functions, each a call of queryApi
ApiNames == {"account", "cToken", "marketHistory", "governance"}
\* HTTP status codes on both sides of the two ends of 200..299
Statuses == {199, 200, 299, 300}
\* a response body that JSON.parse accepts, and one it throws on
Bodies == {"json", "text"}
\* what the request's promise can reject with: an Error object, a plain
\* object, or nothing at all (reject() called without a reason)
RejectReasons == {"Error", "object", "undefined"}

VARIABLES
    shares,      \* market state: receipt shares of the account, per asset
    borrowed,    \* market state: borrow balance of the account, per asset
    entered,     \* market state: asset entered as collateral
    price,       \* oracle state: unit price per asset
    last,        \* the last request made of the contract and how it ended
    api          \* the API client: the call made of each function so far

vars == <<shares, borrowed, entered, price, last>>

Max(x, y) == IF x >= y THEN x ELSE y

\* ------------------------------------------------- comptroller and oracle
SuppliedAmount(sh, a) == sh[a] * ExchangeRate[a]

\* mutant: the supplied balance counts whether or not the asset is entered
CollateralValueAnyAsset(sh, en, pr, a) ==
    (SuppliedAmount(sh, a) * pr[a] * CfNum[a]) \div CfDen

CollateralValue(sh, en, pr, a) ==
    IF en[a] THEN (SuppliedAmount(sh, a) * pr[a] * CfNum[a]) \div CfDen ELSE 0

BorrowValue(bo, pr, a) == bo[a] * pr[a]

RECURSIVE SumCollateral(_, _, _, _)
SumCollateral(sh, en, pr, i) ==
    IF i = 0 THEN 0
    ELSE SumCollateral(sh, en, pr, i - 1) + CollateralValue(sh, en, pr, AssetSeq[i])

RECURSIVE SumBorrow(_, _, _)
SumBorrow(bo, pr, i) ==
    IF i = 0 THEN 0
    ELSE SumBorrow(bo, pr, i - 1) + BorrowValue(bo, pr, AssetSeq[i])

\* mutant: liquidity is the bare difference, without the floor at zero
AccountSnapshotNoFloor(sh, bo, en, pr) ==
    LET c == SumCollateral(sh, en, pr, Len(AssetSeq))
        b == SumBorrow(bo, pr, Len(AssetSeq))
    IN  [totalCollateralValue |-> c,
         totalBorrowValue     |-> b,
         liquidity            |-> c - b,
         shortfall            |-> Max(b - c, 0)]

\* the snapshot the comptroller computes for the account
AccountSnapshot(sh, bo, en, pr) ==
    LET c == SumCollateral(sh, en, pr, Len(AssetSeq))
        b == SumBorrow(bo, pr, Len(AssetSeq))
    IN  [totalCollateralValue |-> c,
         totalBorrowValue     |-> b,
         liquidity            |-> Max(c - b, 0),
         shortfall            |-> Max(b - c, 0)]

Snapshot == AccountSnapshot(shares, borrowed, entered, price)
Liquidity == Snapshot.liquidity
Shortfall == Snapshot.shortfall

\* ------------------------------------------------------------ the market
\* Each mutating call either commits in full and returns 0, or returns a
\* non-zero code and changes nothing.  The market may decline any call.  It
\* always declines a call it cannot carry out (more shares redeemed than
\* held, more repaid than owed, a balance past the model's bound), and it
\* holds the account to its collateral on its own: a borrow, or a redeem of
\* an asset entered as collateral, that would leave the account with
\* shortfall returns non-zero, and so does a borrow of an asset the oracle
\* has no price for.
MintShares(a, amt)   == [shares EXCEPT ![a] = @ + (amt \div ExchangeRate[a])]
RedeemShares(a, sh)  == [shares EXCEPT ![a] = @ - sh]
BorrowDebt(a, amt)   == [borrowed EXCEPT ![a] = @ + amt]
RepayDebt(a, amt)    == [borrowed EXCEPT ![a] = @ - amt]

CanMint(a, amt) == shares[a] + (amt \div ExchangeRate[a]) <= MaxShares

CanRedeem(a, sh) ==
    /\ sh <= shares[a]
    /\ entered[a] =>
          AccountSnapshot(RedeemShares(a, sh), borrowed, entered, price).shortfall = 0

CanBorrow(a, amt) ==
    /\ borrowed[a] + amt <= MaxDebt
    /\ price[a] # 0
    /\ AccountSnapshot(shares, BorrowDebt(a, amt), entered, price).shortfall = 0

CanRepay(a, amt) == amt <= borrowed[a]

\* the record of a request: what was asked, the result code the market call
\* returned (0 when no call was made), how many mutating market calls were
\* issued, how the transaction ended, and the value returned (getMaxBorrow)
Request(op, a, amt, code, calls, outcome, ret) ==
    [op |-> op, asset |-> a, amount |-> amt, code |-> code,
     calls |-> calls, outcome |-> outcome, ret |-> ret]

NoRequest == Request("none", "A", 0, 0, 0, "ok", 0)

\* one call of an API function, as queryApi leaves it: where it stands, the
\* response or the error in hand, the closure's responseCode (0 while
\* undefined; responseMessage is set with it), the state of the promise
\* returned to the caller, what it settled with, and how many times resolve
\* or reject was called
NewCall ==
    [pc |-> "requested", status |-> 0, body |-> "none", error |-> "none",
     responseCode |-> 0, promise |-> "pending", value |-> "none", settles |-> 0]

Init ==
    /\ shares = [a \in Assets |-> 0]
    /\ borrowed = [a \in Assets |-> 0]
    /\ entered = [a \in Assets |-> FALSE]
    /\ price \in {pr \in [Assets -> UNION {Prices[a] : a \in Assets}] :
                    \A a \in Assets : pr[a] \in Prices[a]}
    /\ last = NoRequest
    /\ api = [n \in {} |-> NewCall]

\* ----------------------------------------------------------- the contract
\* mutant: the require is inverted, require(result != 0): the transaction
\* reverts when the mint went through and reports success when it did not
supplyInvertedCheck(a, amt, code) ==
    /\ code = 0 => CanMint(a, amt)
    /\ shares' = shares
    /\ last' = Request("supply", a, amt, code, 1,
                       IF code # 0 THEN "ok" ELSE "MintRejected", 0)
    /\ UNCHANGED <<borrowed, entered, price, api>>

\* supply: approve, then result = cToken.mint(underlyingAmount), then
\* require(result == 0)
supply(a, amt, code) ==
    /\ code = 0 => CanMint(a, amt)
    /\ IF code = 0
       THEN /\ shares' = MintShares(a, amt)
            /\ last' = Request("supply", a, amt, code, 1, "ok", 0)
       ELSE /\ shares' = shares
            /\ last' = Request("supply", a, amt, code, 1, "MintRejected", 0)
    /\ UNCHANGED <<borrowed, entered, price, api>>

\* redeem: result = cToken.redeem(cTokenAmount), then require(result == 0)
redeem(a, sh, code) ==
    /\ code = 0 => CanRedeem(a, sh)
    /\ IF code = 0
       THEN /\ shares' = RedeemShares(a, sh)
            /\ last' = Request("redeem", a, sh, code, 1, "ok", 0)
       ELSE /\ shares' = shares
            /\ last' = Request("redeem", a, sh, code, 1, "RedeemRejected", 0)
    /\ UNCHANGED <<borrowed, entered, price, api>>

\* enterMarket: results = comptroller.enterMarkets([cToken]), then
\* require(result == 0), where no result is declared: the value tested is
\* not the one the call returned, so it is an input of its own
enterMarket(a, code, result) ==
    /\ IF result = 0
       THEN /\ entered' = IF code = 0 THEN [entered EXCEPT ![a] = TRUE] ELSE entered
            /\ last' = Request("enterMarket", a, 0, code, 1, "ok", 0)
       ELSE /\ entered' = entered
            /\ last' = Request("enterMarket", a, 0, code, 1, "EnterMarketFailed", 0)
    /\ UNCHANGED <<shares, borrowed, price, api>>

\* borrow: result = cToken.borrow(borrowAmount), then require(result == 0)
borrow(a, amt, code) ==
    /\ code = 0 => CanBorrow(a, amt)
    /\ IF code = 0
       THEN /\ borrowed' = BorrowDebt(a, amt)
            /\ last' = Request("borrow", a, amt, code, 1, "ok", 0)
       ELSE /\ borrowed' = borrowed
            /\ last' = Request("borrow", a, amt, code, 1, "BorrowRejected", 0)
    /\ UNCHANGED <<shares, entered, price, api>>

\* repayBorrow: approve, then reault = cToken.repayBorrow(underlyingAmount),
\* then require(result == 0): the value tested is not the one the call
\* returned, so it is an input of its own
repayBorrow(a, amt, code, result) ==
    /\ code = 0 => CanRepay(a, amt)
    /\ IF result = 0
       THEN /\ borrowed' = IF code = 0 THEN RepayDebt(a, amt) ELSE borrowed
            /\ last' = Request("repayBorrow", a, amt, code, 1, "ok", 0)
       ELSE /\ borrowed' = borrowed
            /\ last' = Request("repayBorrow", a, amt, code, 1, "RepayRejected", 0)
    /\ UNCHANGED <<shares, entered, price, api>>

\* getMaxBorrow (view): (result, liquidity, shortfall) =
\* comptroller.getAccountLiquidity(this); three requires; then
\* liquidity / priceOracle.getUnderlyingPrice(cToken)
\* mutant: the require(shortfall == 0) is missing
MaxBorrowOutcomeNoShortfallCheck(code, liquidity, shortfall, underlyingPrice) ==
    IF code # 0 THEN "LiquidityQueryFailed"
    ELSE IF ~(liquidity > 0) THEN "NoCollateral"
    ELSE IF underlyingPrice = 0 THEN "DivisionByZero"
    ELSE "ok"

MaxBorrowOutcome(code, liquidity, shortfall, underlyingPrice) ==
    IF code # 0 THEN "LiquidityQueryFailed"
    ELSE IF shortfall # 0 THEN "AccountUnderwater"
    ELSE IF ~(liquidity > 0) THEN "NoCollateral"
    ELSE IF underlyingPrice = 0 THEN "DivisionByZero"
    ELSE "ok"

MaxBorrowValue(liquidity, underlyingPrice) == liquidity \div underlyingPrice

\* mutant: the function is not a view: it also enters the market it is asked
\* about, so the read changes what the next read returns
getMaxBorrowEntering(a, code) ==
    LET outcome == MaxBorrowOutcome(code, Liquidity, Shortfall, price[a])
        ret == IF outcome = "ok" THEN MaxBorrowValue(Liquidity, price[a]) ELSE 0
    IN  /\ last' = Request("getMaxBorrow", a, 0, code, 0, outcome, ret)
        /\ entered' = [entered EXCEPT ![a] = TRUE]
        /\ UNCHANGED <<shares, borrowed, price, api>>

getMaxBorrow(a, code) ==
    LET outcome == MaxBorrowOutcome(code, Liquidity, Shortfall, price[a])
        ret == IF outcome = "ok" THEN MaxBorrowValue(Liquidity, price[a]) ELSE 0
    IN  /\ last' = Request("getMaxBorrow", a, 0, code, 0, outcome, ret)
        /\ UNCHANGED <<shares, borrowed, entered, price, api>>

\* ------------------------------------------------------------ environment
\* the oracle reports a new price for an asset
SetPrice(a, p) ==
    /\ p # price[a]
    /\ price' = [price EXCEPT ![a] = p]
    /\ last' = NoRequest
    /\ UNCHANGED <<shares, borrowed, entered, api>>

Next ==
    \/ \E a \in Assets, amt \in Amounts, code \in ResultCodes : supply(a, amt, code)
    \/ \E a \in Assets, sh \in Amounts, code \in ResultCodes : redeem(a, sh, code)
    \/ \E a \in Assets, code \in ResultCodes, result \in ResultCodes :
          enterMarket(a, code, result)
    \/ \E a \in Assets, amt \in Amounts, code \in ResultCodes : borrow(a, amt, code)
    \/ \E a \in Assets, amt \in Amounts, code \in ResultCodes, result \in ResultCodes :
          repayBorrow(a, amt, code, result)
    \/ \E a \in Assets, code \in ResultCodes : getMaxBorrow(a, code)
    \/ \E a \in Assets : \E p \in Prices[a] : SetPrice(a, p)

Spec == Init /\ [][Next]_vars

\* ------------------------------------------------- failing external reads
\* The external read calls a handler makes before its mutating call (none
\* in redeem and enterMarket, whose first external call is the mutating
\* one); getMaxBorrow makes two reads and no mutating call.
ReadCalls(op) ==
    CASE op \in {"supply", "borrow", "repayBorrow"} -> {"underlying"}
      [] op = "getMaxBorrow" -> {"getAccountLiquidity", "getUnderlyingPrice"}
      [] OTHER -> {}

UpstreamError(read) ==
    IF read = "getUnderlyingPrice" THEN "OracleUnavailable" ELSE "MarketUnavailable"

\* mutant: the failure of the read is swallowed and the handler goes on to
\* its mutating call, which the market carries out
readFailsIgnored(op, a, amt, read) ==
    /\ read \in ReadCalls(op)
    /\ op = "getMaxBorrow" => amt = 0
    /\ shares' = IF op = "supply" /\ CanMint(a, amt) THEN MintShares(a, amt) ELSE shares
    /\ borrowed' = IF op = "borrow" /\ CanBorrow(a, amt) THEN BorrowDebt(a, amt)
                   ELSE IF op = "repayBorrow" /\ CanRepay(a, amt) THEN RepayDebt(a, amt)
                   ELSE borrowed
    /\ last' = Request(op, a, amt, 0, IF op = "getMaxBorrow" THEN 0 ELSE 1,
                       UpstreamError(read), 0)
    /\ UNCHANGED <<entered, price, api>>

\* a handler run in which an external read reverts (the market or the oracle
\* cannot be reached): nothing catches the failure, so the transaction
\* reverts at that call, before the mutating call is made.  In getMaxBorrow
\* the oracle is read only after the three requires have passed.
readFails(op, a, amt, read) ==
    /\ read \in ReadCalls(op)
    /\ op = "getMaxBorrow" => amt = 0
    /\ read = "getUnderlyingPrice" => (Shortfall = 0 /\ Liquidity > 0)
    /\ last' = Request(op, a, amt, 0, 0, UpstreamError(read), 0)
    /\ UNCHANGED <<shares, borrowed, entered, price, api>>

UpstreamNext ==
    \/ Next
    \/ \E op \in {"supply", "borrow", "repayBorrow", "getMaxBorrow"} :
          \E a \in Assets, amt \in Amounts, read \in ReadCalls(op) :
              readFails(op, a, amt, read)

UpstreamSpec == Init /\ [][UpstreamNext]_vars

\* --------------------------------------------------------- the API client
\* queryApi: new Promise(executor); the executor starts the request and
\* chains .then(callback).catch(handler) on it
queryApi(n) ==
    /\ n \notin DOMAIN api
    /\ api' = [m \in DOMAIN api \cup {n} |-> IF m = n THEN NewCall ELSE api[m]]
    /\ UNCHANGED vars

\* the request's promise is fulfilled with a response
requestFulfils(n, status, body) ==
    /\ n \in DOMAIN api /\ api[n].pc = "requested"
    /\ api' = [api EXCEPT ![n] = [@ EXCEPT !.pc = "then", !.status = status,
                                           !.body = body]]
    /\ UNCHANGED vars

\* the request's promise is rejected (transport failure, timeout)
requestRejects(n, reason) ==
    /\ n \in DOMAIN api /\ api[n].pc = "requested"
    /\ api' = [api EXCEPT ![n] = [@ EXCEPT !.pc = "catch", !.error = reason]]
    /\ UNCHANGED vars

\* JSON.parse(body): the parsed value, or a SyntaxError thrown
JsonParse(body) == IF body = "json" THEN "responseBody" ELSE "SyntaxError"

\* the then-callback: responseCode and responseMessage are set, the body is
\* parsed (a SyntaxError goes to the catch handler), then either
\* resolve(responseBody) or throw 'Invalid request ...' (a string)
thenCallback(n) ==
    /\ n \in DOMAIN api /\ api[n].pc = "then"
    /\ LET c == [api[n] EXCEPT !.responseCode = api[n].status]
           parsed == JsonParse(c.body)
       IN  api' = [api EXCEPT ![n] =
             IF parsed = "SyntaxError"
             THEN [c EXCEPT !.pc = "catch", !.error = "SyntaxError"]
             ELSE IF c.responseCode >= 200 /\ c.responseCode <= 299
             THEN [c EXCEPT !.pc = "done", !.promise = "resolved",
                            !.value = parsed, !.settles = @ + 1]
             ELSE [c EXCEPT !.pc = "catch", !.error = "string"]]
    /\ UNCHANGED vars

\* the catch handler: reads error.name, builds the message, and calls
\* reject({error, responseCode, responseMessage}).  Reading .name of
\* undefined throws a TypeError out of the handler: reject is never called.
catchHandler(n) ==
    /\ n \in DOMAIN api /\ api[n].pc = "catch"
    /\ LET c == api[n]
       IN  api' = [api EXCEPT ![n] =
             IF c.error = "undefined"
             THEN [c EXCEPT !.pc = "done"]
             ELSE [c EXCEPT !.pc = "done", !.promise = "rejected",
                            !.value = IF c.error = "SyntaxError"
                                      THEN "UnableToParse" ELSE "errorToString",
                            !.settles = @ + 1]]
    /\ UNCHANGED vars

ApiInit == Init /\ price = [a \in Assets |-> 1]

ApiNext ==
    \/ \E n \in ApiNames : queryApi(n)
    \/ \E n \in ApiNames, status \in Statuses, body \in Bodies :
          requestFulfils(n, status, body)
    \/ \E n \in ApiNames, reason \in RejectReasons : requestRejects(n, reason)
    \/ \E n \in ApiNames : thenCallback(n)
    \/ \E n \in ApiNames : catchHandler(n)

ApiSpec == ApiInit /\ [][ApiNext]_<<vars, api>>

\* ================================================================ claims
\* The validation rules of the liquidity engine, evaluated on the state a
\* request finds (the snapshot just before it).
ShortfallAfterRedeem(a, sh) ==
    AccountSnapshot(RedeemShares(a, sh), borrowed, entered, price).shortfall

ValidationFails(op, a, amt) ==
    \/ op \in {"supply", "repayBorrow"} /\ amt = 0
    \/ op = "borrow" /\ (Shortfall # 0 \/ Liquidity = 0 \/ amt * price[a] > Liquidity)
    \/ op = "redeem" /\ (amt > shares[a] \/ (entered[a] /\ ShortfallAfterRedeem(a, amt) # 0))

ValidationErrors ==
    {"InsufficientCollateral", "AccountUnderwater", "NoCollateral",
     "BorrowExceedsLiquidity", "MarketExitBlocked"}

\* C1 (as claimed): a request whose local validation fails causes no
\* mutating market call; a mutating call is only issued for an approved
\* request.
C1_RejectBeforeSubmit ==
    [][ValidationFails(last'.op, last'.asset, last'.amount) => last'.calls = 0]_vars

\* C2 (as claimed): with shortfall = 0 and liquidity > 0, a borrow is
\* rejected with BorrowExceedsLiquidity, before any market call, exactly
\* when amount * price(asset) > liquidity, and is approved otherwise.
C2_BorrowExceedsLiquidity ==
    [][(last'.op = "borrow" /\ Shortfall = 0 /\ Liquidity > 0) =>
          IF last'.amount * price[last'.asset] > Liquidity
          THEN last'.outcome = "BorrowExceedsLiquidity"
          ELSE last'.outcome \notin ValidationErrors]_vars

\* C3 (as claimed): when getMaxBorrow has just returned m for an asset, a
\* borrow of m of that asset is not rejected by validation and a borrow of
\* m + 1 fails with BorrowExceedsLiquidity.
C3_MaxBorrowThenBorrow ==
    [][(/\ last.op = "getMaxBorrow" /\ last.outcome = "ok"
        /\ last'.op = "borrow" /\ last'.asset = last.asset) =>
          /\ last'.amount = last.ret => last'.outcome \notin ValidationErrors
          /\ last'.amount = last.ret + 1 => last'.outcome = "BorrowExceedsLiquidity"]_vars

\* C4 (as claimed): when the snapshot has shortfall # 0, every borrow and
\* every getMaxBorrow fails with AccountUnderwater, whatever the amount.
C4_Underwater ==
    [][(/\ Shortfall # 0
        /\ \/ last'.op = "borrow"
           \/ last'.op = "getMaxBorrow" /\ last'.code = 0) =>
          last'.outcome = "AccountUnderwater"]_vars

\* C5 (as claimed): when the snapshot has shortfall = 0 and liquidity = 0,
\* every borrow and every getMaxBorrow fails with NoCollateral and no
\* borrow call reaches the market.
C5_NoCollateral ==
    [][(/\ Shortfall = 0 /\ Liquidity = 0
        /\ \/ last'.op = "borrow"
           \/ last'.op = "getMaxBorrow" /\ last'.code = 0) =>
          last'.outcome = "NoCollateral" /\ last'.calls = 0]_vars

\* C6: in every reachable state the snapshot has liquidity >= 0 and
\* shortfall >= 0, and the two are never both positive.
C6_MutuallyExclusive ==
    /\ Liquidity >= 0
    /\ Shortfall >= 0
    /\ Liquidity > 0 => Shortfall = 0
    /\ Shortfall > 0 => Liquidity = 0

\* a state with shortfall, reached through supply, enterMarket and borrow
C6_Witness ==
    /\ Shortfall > 0
    /\ \E a \in Assets : entered[a] /\ shares[a] > 0
    /\ \E a \in Assets : borrowed[a] > 0

\* C7 (as claimed): in every reachable state exactly one of liquidity and
\* shortfall is non-zero.
C7_ExactlyOneNonZero == (Liquidity # 0) # (Shortfall # 0)

\* C7 (amended): liquidity and shortfall are never both non-zero, and they
\* are both zero exactly when the factored collateral value equals the
\* borrow value (in particular for an account with no positions), which is
\* the one state in which getMaxBorrow answers that the account has no
\* collateral.
C7_BothZeroIffEqual ==
    /\ ~(Liquidity # 0 /\ Shortfall # 0)
    /\ (Liquidity = 0 /\ Shortfall = 0)
          <=> (Snapshot.totalCollateralValue = Snapshot.totalBorrowValue)
    /\ (\A a \in Assets : shares[a] = 0 /\ borrowed[a] = 0)
          => (Liquidity = 0 /\ Shortfall = 0)
    /\ (last.op = "getMaxBorrow" /\ last.code = 0)
          => ((last.outcome = "NoCollateral") <=> (Liquidity = 0 /\ Shortfall = 0))

\* getMaxBorrow has just answered NoCollateral to an account whose
\* collateral value equals its borrow value, both positive
C7_Witness ==
    /\ last.op = "getMaxBorrow" /\ last.outcome = "NoCollateral"
    /\ Snapshot.totalCollateralValue = Snapshot.totalBorrowValue
    /\ Snapshot.totalBorrowValue > 0
    /\ Liquidity = 0 /\ Shortfall = 0

\* C8: liquidity - shortfall is the sum of supplied * price *
\* collateral-factor over the assets entered as collateral minus the sum of
\* borrowed * price over all assets; a supplied asset that is not entered
\* contributes nothing.
FactoredCollateralOf(a) ==
    (shares[a] * ExchangeRate[a] * price[a] * CfNum[a]) \div CfDen

C8_LiquidityIdentity ==
    /\ Liquidity - Shortfall =
          (IF entered["A"] THEN FactoredCollateralOf("A") ELSE 0)
        + (IF entered["B"] THEN FactoredCollateralOf("B") ELSE 0)
        - borrowed["A"] * price["A"]
        - borrowed["B"] * price["B"]
    /\ Snapshot =
          AccountSnapshot([a \in Assets |-> IF entered[a] THEN shares[a] ELSE 0],
                          borrowed, entered, price)

\* one asset supplied but not entered, the other entered and borrowed against
C8_Witness ==
    \E a, b \in Assets :
        /\ a # b
        /\ shares[a] > 0 /\ ~entered[a] /\ price[a] > 0
        /\ shares[b] > 0 /\ entered[b] /\ price[b] > 0
        /\ \E c \in Assets : borrowed[c] > 0 /\ price[c] > 0

\* C9: a successful supply leaves liquidity no smaller and shortfall no
\* larger than before it; whether a supply succeeds depends on the market's
\* result code alone, never on the account's liquidity.
C9_SupplyNeverHurts ==
    [][last'.op = "supply" =>
          /\ last'.outcome = "ok" => (Liquidity' >= Liquidity /\ Shortfall' <= Shortfall)
          /\ (Shortfall = 0 /\ last'.outcome = "ok") => Shortfall' = 0
          /\ last'.outcome = (IF last'.code = 0 THEN "ok" ELSE "MintRejected")]_vars

\* a successful supply of collateral to an account that is in shortfall
C9_Witness ==
    /\ last.op = "supply" /\ last.outcome = "ok"
    /\ last.amount \div ExchangeRate[last.asset] > 0
    /\ entered[last.asset] /\ price[last.asset] > 0
    /\ Shortfall > 0

\* C10 (as claimed): a redeem of w <= the balance of an asset entered as
\* collateral is rejected with InsufficientCollateral exactly when the
\* snapshot with w removed has shortfall, and no redeem that goes through
\* leaves the account with shortfall.
C10_InsufficientCollateral ==
    [][(/\ last'.op = "redeem" /\ entered[last'.asset]
        /\ last'.amount <= shares[last'.asset]) =>
          /\ (ShortfallAfterRedeem(last'.asset, last'.amount) # 0)
                <=> (last'.outcome = "InsufficientCollateral")
          /\ last'.outcome = "ok" => Shortfall' = 0]_vars

\* the operations that call a mutating function of the market, and the
\* failure each reports when the market's result code is not 0
MutatingOps == {"supply", "redeem", "enterMarket", "borrow", "repayBorrow"}

RejectedKind(op) ==
    CASE op = "supply"      -> "MintRejected"
      [] op = "redeem"      -> "RedeemRejected"
      [] op = "enterMarket" -> "EnterMarketFailed"
      [] op = "borrow"      -> "BorrowRejected"
      [] op = "repayBorrow" -> "RepayRejected"

\* C11 (as claimed): a repay of more than the outstanding borrow of the
\* asset is clamped to the outstanding borrow: it goes through and leaves
\* the borrowed amount of the asset exactly zero; no borrowed amount is
\* ever negative.
C11_RepayClamped ==
    [][/\ \A a \in Assets : borrowed'[a] >= 0
       /\ (/\ last'.op = "repayBorrow"
           /\ borrowed[last'.asset] > 0
           /\ last'.amount > borrowed[last'.asset]) =>
              /\ last'.outcome = "ok"
              /\ borrowed'[last'.asset] = 0]_vars

\* C12 (as claimed): supply, redeem, enterMarket, borrow and repayBorrow
\* report success only if the result code their market call returned is 0;
\* a non-zero code makes the operation fail with its rejection.
C12_ResultCodeChecked ==
    [][last'.op \in MutatingOps =>
          /\ last'.outcome = "ok" => last'.code = 0
          /\ last'.code # 0 => last'.outcome = RejectedKind(last'.op)]_vars

\* C13 (as claimed): a request that validation rejects issues no mutating
\* market call and an approved one issues exactly one; when that call
\* fails the request ends with the market's failure, with no second call.
C13_ExactlyOneCall ==
    [][last'.op \in MutatingOps =>
          /\ last'.calls =
                (IF ValidationFails(last'.op, last'.asset, last'.amount) THEN 0 ELSE 1)
          /\ (last'.calls = 1 /\ last'.code # 0) =>
                last'.outcome = RejectedKind(last'.op)]_vars

\* validation rule 3 (borrow) evaluated on the snapshot of borrow balances bo
BorrowApproved(bo, a, amt) ==
    LET s == AccountSnapshot(shares, bo, entered, price)
    IN  s.shortfall = 0 /\ s.liquidity # 0 /\ amt * price[a] <= s.liquidity

\* the borrow balances before the request recorded in last, a borrow that
\* went through
BorrowedBeforeLast == [borrowed EXCEPT ![last.asset] = @ - last.amount]

\* C14 (as claimed): of two borrows of positive amounts submitted together,
\* each approved on the snapshot both were submitted against, the one that
\* runs second is validated against the state it finds when its market call
\* would execute: it reaches the market only if the rules still approve it,
\* and no borrow or redeem that goes through at unchanged prices leaves the
\* account with shortfall.
C14_ValidatedAtExecution ==
    [][/\ (/\ last.op = "borrow" /\ last.outcome = "ok"
           /\ last'.op = "borrow" /\ last'.amount > 0
           /\ BorrowApproved(BorrowedBeforeLast, last.asset, last.amount)
           /\ BorrowApproved(BorrowedBeforeLast, last'.asset, last'.amount)) =>
              (last'.calls = 1 =>
                  ~ValidationFails("borrow", last'.asset, last'.amount))
       /\ (/\ last'.op \in {"borrow", "redeem"} /\ last'.outcome = "ok"
           /\ Shortfall = 0) => Shortfall' = 0]_vars

\* what does hold: a borrow or redeem that goes through never creates
\* shortfall, because the market declines it otherwise
C14_NoShortfallCreated ==
    [][(/\ last'.op \in {"borrow", "redeem"} /\ last'.outcome = "ok"
        /\ Shortfall = 0) => Shortfall' = 0]_vars

UpstreamErrors == {"MarketUnavailable", "OracleUnavailable"}

Stages(r) ==
    LET end == IF r.outcome = "ok" THEN "Executed" ELSE "Aborted"
    IN  IF r.op = "getMaxBorrow"
        THEN IF r.code # 0 THEN <<"Received", end>>
             ELSE <<"Received", "Refreshed", "Validated", end>>
        ELSE <<"Received", end>>

\* C16 (as claimed): every request whose reads are answered ends Executed or
\* Aborted, having passed through Received, Refreshed and Validated in that
\* order.
C16_Lifecycle ==
    [][(\/ last'.op \in MutatingOps
        \/ last'.op = "getMaxBorrow" /\ last'.code = 0) =>
          LET st == Stages(last')
          IN  /\ st[Len(st)] \in {"Executed", "Aborted"}
              /\ Len(st) = 4
              /\ SubSeq(st, 1, 3) = <<"Received", "Refreshed", "Validated">>]_vars

C18_SettlesExactlyOnce ==
    \A n \in DOMAIN api :
        /\ api[n].settles <= 1
        /\ api[n].pc = "done" =>
              /\ api[n].promise # "pending"
              /\ api[n].settles = 1
              /\ (api[n].promise = "resolved") <=>
                    (/\ api[n].status >= 200 /\ api[n].status <= 299
                     /\ api[n].body = "json")
              /\ api[n].promise = "resolved" => api[n].value = "responseBody"
              /\ api[n].promise = "rejected" =>
                    api[n].value \in {"UnableToParse", "errorToString"}

\* what does hold: the same, for every request that does not reject with
\* no reason at all
C18_SettlesUnlessNoReason ==
    \A n \in DOMAIN api :
        /\ api[n].settles <= 1
        /\ (api[n].pc = "done" /\ api[n].error # "undefined") =>
              /\ api[n].promise # "pending"
              /\ api[n].settles = 1
              /\ (api[n].promise = "resolved") <=>
                    (/\ api[n].status >= 200 /\ api[n].status <= 299
                     /\ api[n].body = "json")
              /\ api[n].promise = "resolved" => api[n].value = "responseBody"
              /\ api[n].promise = "rejected" =>
                    api[n].value \in {"UnableToParse", "errorToString"}
====
